---- MODULE Spec2Model ----
(***************************************************************************)
(* A model of the price-tracking pipeline of dealeshwar: the scrape-product *)
(* handler and its per-vendor extractors, the daily-price-scraper run, the  *)
(* price statistics of the product-history page, and the platform matcher   *)
(* (calculateSimilarity, de-duplication, ranking, best deal).               *)
(*                                                                          *)
(* Text is modelled by TLA+ strings, character by character; a JavaScript   *)
(* number produced by parseFloat is the record [nan, m, e] standing for     *)
(* m / 10^e; a DECIMAL(10,2) column holds an integer number of hundredths.  *)
(***************************************************************************)
EXTENDS Integers, Sequences, FiniteSets, TLC

VARIABLES
    products,       \* table public.products: a set of rows
    price_history,  \* table public.price_history: a set of rows
    nextId,         \* gen_random_uuid(): the next fresh row id
    clock,          \* now(): the database clock
    fetched,        \* the URLs the scrape handler requested while handling its last request
    resp,           \* the last response of the scrape-product handler
    daily,          \* the daily-price-scraper run in progress
    ex,             \* an extractor applied to one page
    page,           \* the state of the ProductHistory page
    sim,            \* two names and their similarity scores
    match           \* the platform matcher invocation in progress

vars == <<products, price_history, nextId, clock, fetched, resp, daily, ex, page, sim, match>>

----------------------------------------------------------------------------
(* Bounds of the model *)

MaxProducts == 2     \* rows the products table holds at most
MaxEls == 2          \* elements of a generated page
MaxHistory == 4      \* price records of the product shown on the history page
MaxTime == 2         \* distinct capture times of those records
MaxWords == 2        \* words of a generated name
MaxRecords == 3      \* price records of the product a recommendation is asked for
MaxListings == 3     \* listings the vendors' search pages serve in one invocation

----------------------------------------------------------------------------
(* Strings *)

Char(s, i) == SubSeq(s, i, i)

Digits == {"0", "1", "2", "3", "4", "5", "6", "7", "8", "9"}

\* String.prototype.includes
Includes(s, t) ==
    \/ t = ""
    \/ \E i \in 1..(Len(s) - Len(t) + 1) : SubSeq(s, i, i + Len(t) - 1) = t

\* s.replace(/[chars]/g, '')
RECURSIVE RemoveChars(_, _)
RemoveChars(s, chars) ==
    IF s = "" THEN ""
    ELSE (IF Char(s, 1) \in chars THEN "" ELSE Char(s, 1)) \o RemoveChars(Tail(s), chars)

\* s.replace(/[^chars]/g, '')
RECURSIVE KeepChars(_, _)
KeepChars(s, chars) ==
    IF s = "" THEN ""
    ELSE (IF Char(s, 1) \in chars THEN Char(s, 1) ELSE "") \o KeepChars(Tail(s), chars)

Whitespace == {" "}

RECURSIVE TrimStart(_)
TrimStart(s) == IF s # "" /\ Char(s, 1) \in Whitespace THEN TrimStart(Tail(s)) ELSE s

RECURSIVE TrimEnd(_)
TrimEnd(s) ==
    IF s # "" /\ Char(s, Len(s)) \in Whitespace THEN TrimEnd(SubSeq(s, 1, Len(s) - 1)) ELSE s

\* String.prototype.trim
Trim(s) == TrimEnd(TrimStart(s))

\* the longest prefix of s made of characters of chars
RECURSIVE Prefix(_, _)
Prefix(s, chars) ==
    IF s = "" \/ Char(s, 1) \notin chars THEN "" ELSE Char(s, 1) \o Prefix(Tail(s), chars)

----------------------------------------------------------------------------
(* Numbers *)

NaN == [nan |-> TRUE, m |-> 0, e |-> 0]

RECURSIVE Pow10(_)
Pow10(n) == IF n = 0 THEN 1 ELSE 10 * Pow10(n - 1)

\* m / 10^e without trailing zeros in the fraction, so that equal numbers are equal records
RECURSIVE Number(_, _)
Number(m, e) ==
    IF e > 0 /\ m % 10 = 0 THEN Number(m \div 10, e - 1) ELSE [nan |-> FALSE, m |-> m, e |-> e]

Zero == Number(0, 0)

DigitValue(c) ==
    CASE c = "0" -> 0 [] c = "1" -> 1 [] c = "2" -> 2 [] c = "3" -> 3 [] c = "4" -> 4
      [] c = "5" -> 5 [] c = "6" -> 6 [] c = "7" -> 7 [] c = "8" -> 8 [] c = "9" -> 9

RECURSIVE DigitsValue(_)
DigitsValue(s) ==
    IF s = "" THEN 0
    ELSE 10 * DigitsValue(SubSeq(s, 1, Len(s) - 1)) + DigitValue(Char(s, Len(s)))

\* parseFloat on the strings its callers produce (digits and dots only): the longest
\* prefix "digits [. digits]" holding at least one digit, NaN when there is none
ParseFloat(s) ==
    LET ip == Prefix(s, Digits)
        rest == SubSeq(s, Len(ip) + 1, Len(s))
        fp == IF rest # "" /\ Char(rest, 1) = "." THEN Prefix(Tail(rest), Digits) ELSE ""
    IN  IF ip = "" /\ fp = "" THEN NaN ELSE Number(DigitsValue(ip \o fp), Len(fp))

\* x > 0 in JavaScript: false for NaN
Positive(x) == ~x.nan /\ x.m > 0

\* x === 0
IsZero(x) == ~x.nan /\ x.m = 0

\* the number as a DECIMAL(10,2) column stores it: hundredths, rounded half up
ToDecimal2(x) ==
    IF x.e <= 2 THEN x.m * Pow10(2 - x.e)
    ELSE (x.m + 5 * Pow10(x.e - 3)) \div Pow10(x.e - 2)

----------------------------------------------------------------------------
(* IEEE 754 doubles, for the arithmetic the history page does on prices.  A  *)
(* big natural number is the sequence of its digits in base 2^15, the least  *)
(* significant first and the last one not zero; a positive double is [m, e]  *)
(* with 2^52 <= m < 2^53, standing for m * 2^e; zero is [0, 0].  Every       *)
(* operation rounds to nearest, ties to even, as the hardware does.          *)

MantissaBits == 53
LimbBits == 15

RECURSIVE Pow2(_)
Pow2(k) == IF k = 0 THEN 1 ELSE 2 * Pow2(k - 1)

Limb == Pow2(LimbBits)

RECURSIVE BigOfNat(_)
BigOfNat(n) == IF n = 0 THEN <<>> ELSE <<n % Limb>> \o BigOfNat(n \div Limb)

\* the digits without the zeros at the significant end
RECURSIVE BigStrip(_)
BigStrip(a) ==
    IF a # <<>> /\ a[Len(a)] = 0 THEN BigStrip(SubSeq(a, 1, Len(a) - 1)) ELSE a

BigDigit(a, i) == IF i >= 1 /\ i <= Len(a) THEN a[i] ELSE 0

RECURSIVE BitLength(_)
BitLength(n) == IF n = 0 THEN 0 ELSE 1 + BitLength(n \div 2)

\* the number of bits of a
BigBitLen(a) == IF a = <<>> THEN 0 ELSE LimbBits * (Len(a) - 1) + BitLength(a[Len(a)])

\* a * 2^k
BigShl(a, k) ==
    LET q == k \div LimbBits
        r == k % LimbBits
    IN  BigStrip([i \in 1..(Len(a) + q + 1) |->
                    ((BigDigit(a, i - q) * Pow2(r)) % Limb)
                        + ((BigDigit(a, i - q - 1) * Pow2(r)) \div Limb)])

\* a \div 2^k
BigShr(a, k) ==
    LET q == k \div LimbBits
        r == k % LimbBits
    IN  IF Len(a) <= q THEN <<>>
        ELSE BigStrip([i \in 1..(Len(a) - q) |->
                        (BigDigit(a, i + q) \div Pow2(r))
                            + ((BigDigit(a, i + q + 1) % Pow2(r)) * Pow2(LimbBits - r))])

\* bit k of a, bit 0 the least significant
BigBit(a, k) == (BigDigit(a, (k \div LimbBits) + 1) \div Pow2(k % LimbBits)) % 2

\* a % 2^k = 0
BigLowBitsZero(a, k) ==
    /\ \A i \in 1..(k \div LimbBits) : BigDigit(a, i) = 0
    /\ BigDigit(a, (k \div LimbBits) + 1) % Pow2(k % LimbBits) = 0

\* a + b + carry, digit i onwards
RECURSIVE BigAddFrom(_, _, _, _)
BigAddFrom(a, b, i, carry) ==
    IF i > Len(a) /\ i > Len(b) THEN (IF carry = 0 THEN <<>> ELSE <<carry>>)
    ELSE LET sum == BigDigit(a, i) + BigDigit(b, i) + carry
         IN  <<sum % Limb>> \o BigAddFrom(a, b, i + 1, sum \div Limb)

BigAdd(a, b) == BigAddFrom(a, b, 1, 0)

\* long division of the digits a[1..i] by the small number d, given the remainder rem
\* of the digits above them: [q, r]
RECURSIVE BigDivFrom(_, _, _, _)
BigDivFrom(a, d, i, rem) ==
    IF i = 0 THEN [q |-> <<>>, r |-> rem]
    ELSE LET cur == rem * Limb + a[i]
             below == BigDivFrom(a, d, i - 1, cur % d)
         IN  [q |-> Append(below.q, cur \div d), r |-> below.r]

BigDivSmall(a, d) ==
    LET res == BigDivFrom(a, d, Len(a), 0) IN [q |-> BigStrip(res.q), r |-> res.r]

\* a < b
BigLess(a, b) ==
    \/ Len(a) < Len(b)
    \/ /\ Len(a) = Len(b)
       /\ \E i \in 1..Len(a) : a[i] < b[i] /\ \A j \in (i + 1)..Len(a) : a[j] = b[j]

DoubleZero == [m |-> <<>>, e |-> 0]

\* the double nearest to n * 2^e (n plus a fraction when sticky)
RoundToDouble(n, sticky, e) ==
    LET len == BigBitLen(n)
        s == len - MantissaBits
    IN  IF len = 0 THEN DoubleZero
        ELSE IF s <= 0 THEN [m |-> BigShl(n, -s), e |-> e + s]
        ELSE LET top == BigShr(n, s)
                 half == BigBit(n, s - 1) = 1
                 more == sticky \/ ~BigLowBitsZero(n, s - 1)
                 up == half /\ (more \/ BigBit(top, 0) = 1)
                 rounded == IF up THEN BigAdd(top, <<1>>) ELSE top
             IN  IF BigBitLen(rounded) > MantissaBits
                 THEN [m |-> BigShr(rounded, 1), e |-> e + s + 1]
                 ELSE [m |-> rounded, e |-> e + s]

\* the number JSON.parse gives for a DECIMAL(10,2) value of c hundredths
DoubleOfDecimal(c) ==
    LET d == BigDivSmall(BigShl(BigOfNat(c), 62), 100)
    IN  RoundToDouble(d.q, d.r # 0, -62)

\* x + y
DoubleAdd(x, y) ==
    IF x.m = <<>> THEN y
    ELSE IF y.m = <<>> THEN x
    ELSE LET e == IF x.e < y.e THEN x.e ELSE y.e
         IN  RoundToDouble(BigAdd(BigShl(x.m, x.e - e), BigShl(y.m, y.e - e)), FALSE, e)

\* x / n for a whole number 0 < n < 2^8
DoubleDiv(x, n) ==
    IF x.m = <<>> THEN DoubleZero
    ELSE LET d == BigDivSmall(BigShl(x.m, 10), n)
         IN  RoundToDouble(d.q, d.r # 0, x.e - 10)

\* a * d + carry for a digit d, digit i onwards
RECURSIVE BigMulSmallFrom(_, _, _, _)
BigMulSmallFrom(a, d, i, carry) ==
    IF i > Len(a) THEN (IF carry = 0 THEN <<>> ELSE <<carry>>)
    ELSE LET prod == a[i] * d + carry
         IN  <<prod % Limb>> \o BigMulSmallFrom(a, d, i + 1, prod \div Limb)

\* a * b, digit i of b onwards
RECURSIVE BigMulFrom(_, _, _)
BigMulFrom(a, b, i) ==
    IF i > Len(b) THEN <<>>
    ELSE BigAdd(BigShl(BigStrip(BigMulSmallFrom(a, b[i], 1, 0)), LimbBits * (i - 1)),
                BigMulFrom(a, b, i + 1))

BigMul(a, b) == BigStrip(BigMulFrom(a, b, 1))

\* x * y
DoubleMul(x, y) ==
    IF x.m = <<>> \/ y.m = <<>> THEN DoubleZero
    ELSE RoundToDouble(BigMul(x.m, y.m), FALSE, x.e + y.e)

\* x < y
DoubleLess(x, y) ==
    IF y.m = <<>> THEN FALSE
    ELSE IF x.m = <<>> THEN TRUE
    ELSE x.e < y.e \/ (x.e = y.e /\ BigLess(x.m, y.m))

\* x <= y
DoubleLeq(x, y) == ~DoubleLess(y, x)

----------------------------------------------------------------------------
(* Pages.  A page is the sequence of its elements in document order; an      *)
(* element is the set of the selectors it matches and its textContent.       *)

Null == [null |-> TRUE]

Element(sels, text) == [sels |-> sels, text |-> text]

\* doc.querySelector(sel): the first matching element
QuerySelector(doc, sel) ==
    IF \E i \in 1..Len(doc) : sel \in doc[i].sels
    THEN doc[CHOOSE i \in 1..Len(doc) :
                /\ sel \in doc[i].sels
                /\ \A j \in 1..(i - 1) : sel \notin doc[j].sels]
    ELSE Null

\* a || b on elements
OrElse(a, b) == IF a # Null THEN a ELSE b

RECURSIVE TextContent(_)
TextContent(doc) == IF doc = <<>> THEN "" ELSE Head(doc).text \o TextContent(Tail(doc))

\* doc.querySelectorAll('*'): the root element, whose textContent is the text of the
\* whole document, then the elements
AllElements(doc) == <<Element({}, TextContent(doc))>> \o doc

----------------------------------------------------------------------------
(* scrape-product: the per-vendor extractors.  Only the fields the handler   *)
(* persists into NOT NULL columns or compares are kept: name, price,         *)
(* currency, platform_name, platform_url, in_stock.                          *)

ProductData(name, price, platform, url) ==
    [name |-> Trim(name), price |-> price, currency |-> "INR",
     platform_name |-> platform, platform_url |-> url, in_stock |-> TRUE]

AmazonNameSelectors ==
    <<"#productTitle", "h1 span#productTitle",
      ".a-size-large.a-size-base-plus.a-color-base.a-text-normal",
      "[data-automation-id=\"product-title\"]", "h1.a-size-large", "h1 span", ".product-title">>

AmazonPriceSelectors ==
    <<"span.a-price-whole", ".a-price .a-offscreen", ".a-price-current .a-offscreen",
      ".a-price.a-text-price .a-offscreen", ".a-price-whole", "[data-a-price-whole]",
      ".a-color-price", ".a-price.a-text-normal .a-offscreen">>

\* for (const selector of nameSelectors): the first non-empty trimmed text
RECURSIVE AmazonName(_, _)
AmazonName(doc, i) ==
    IF i > Len(AmazonNameSelectors) THEN ""
    ELSE LET el == QuerySelector(doc, AmazonNameSelectors[i])
         IN  IF el # Null /\ Trim(el.text) # "" THEN Trim(el.text)
             ELSE AmazonName(doc, i + 1)

AmazonPriceText(text) == KeepChars(RemoveChars(text, {"₹", ",", " "}), Digits \cup {"."})

\* for (const selector of priceSelectors): the first text that parses to a positive
\* number, 0 when there is none
RECURSIVE AmazonSelectorPrice(_, _)
AmazonSelectorPrice(doc, i) ==
    IF i > Len(AmazonPriceSelectors) THEN Zero
    ELSE LET el == QuerySelector(doc, AmazonPriceSelectors[i])
             priceText == AmazonPriceText(el.text)
         IN  IF el # Null /\ el.text # "" /\ priceText # "" /\ Positive(ParseFloat(priceText))
             THEN ParseFloat(priceText)
             ELSE AmazonSelectorPrice(doc, i + 1)

CurrencySymbols == {"₹", "$", "€", "£"}

\* text.match(/[₹$€£]([\d,]+(?:\.\d{2})?)/): the captured group of the leftmost
\* match, "" when the text has no match
RECURSIVE CurrencyCapture(_)
CurrencyCapture(text) ==
    IF Len(text) < 2 THEN ""
    ELSE IF Char(text, 1) \in CurrencySymbols /\ Char(text, 2) \in Digits \cup {","}
         THEN LET run == Prefix(Tail(text), Digits \cup {","})
                  after == SubSeq(text, Len(run) + 2, Len(text))
              IN  IF /\ Len(after) >= 3
                     /\ Char(after, 1) = "."
                     /\ Char(after, 2) \in Digits
                     /\ Char(after, 3) \in Digits
                  THEN run \o SubSeq(after, 1, 3)
                  ELSE run
         ELSE CurrencyCapture(Tail(text))

\* for (const el of currencyElements): price is overwritten by every match, and the
\* loop stops at the first positive one
RECURSIVE AmazonCurrencySearch(_, _, _)
AmazonCurrencySearch(els, i, price) ==
    IF i > Len(els) THEN price
    ELSE LET captured == CurrencyCapture(els[i].text)
             parsed == ParseFloat(RemoveChars(captured, {","}))
         IN  IF captured = "" THEN AmazonCurrencySearch(els, i + 1, price)
             ELSE IF Positive(parsed) THEN parsed
             ELSE AmazonCurrencySearch(els, i + 1, parsed)

AmazonPrice(doc) ==
    LET price == AmazonSelectorPrice(doc, 1)
    IN  IF IsZero(price) THEN AmazonCurrencySearch(AllElements(doc), 1, price) ELSE price

ScrapeAmazon(doc, url) == ProductData(AmazonName(doc, 1), AmazonPrice(doc), "Amazon", url)

\* nameEl?.textContent?.trim() || ''
ElementName(el) == IF el = Null THEN "" ELSE Trim(el.text)

\* parseFloat((priceEl?.textContent || '0').replace(/[^\d.]/g, ''))
ElementPrice(el) ==
    LET priceText == IF el = Null \/ el.text = "" THEN "0" ELSE el.text
    IN  ParseFloat(KeepChars(priceText, Digits \cup {"."}))

ScrapeFlipkart(doc, url) ==
    ProductData(ElementName(OrElse(QuerySelector(doc, ".B_NuCI"), QuerySelector(doc, "h1"))),
                ElementPrice(OrElse(QuerySelector(doc, "._30jeq3"), QuerySelector(doc, "._1_WHN1"))),
                "Flipkart", url)

ScrapeMyntra(doc, url) ==
    ProductData(ElementName(OrElse(QuerySelector(doc, ".pdp-name"), QuerySelector(doc, "h1"))),
                ElementPrice(OrElse(QuerySelector(doc, ".pdp-price strong"),
                                    QuerySelector(doc, "[class*=\"price\"]"))),
                "Myntra", url)

ScrapeAjio(doc, url) ==
    ProductData(ElementName(OrElse(QuerySelector(doc, ".prod-name"), QuerySelector(doc, "h1"))),
                ElementPrice(OrElse(QuerySelector(doc, ".prod-sp"),
                                    QuerySelector(doc, "[class*=\"price\"]"))),
                "AJIO", url)

ScrapeNykaa(doc, url) ==
    ProductData(ElementName(OrElse(QuerySelector(doc, ".product-title"), QuerySelector(doc, "h1"))),
                ElementPrice(OrElse(QuerySelector(doc, ".post-card__content-price-offer"),
                                    QuerySelector(doc, "[class*=\"price\"]"))),
                "Nykaa", url)

\* scrapeProduct after the fetch: the vendor by the first marker the URL contains;
\* Null stands for throw new Error('Unsupported platform')
ScrapeProduct(doc, url) ==
    IF Includes(url, "amazon.") THEN ScrapeAmazon(doc, url)
    ELSE IF Includes(url, "flipkart.") THEN ScrapeFlipkart(doc, url)
    ELSE IF Includes(url, "myntra.") THEN ScrapeMyntra(doc, url)
    ELSE IF Includes(url, "ajio.") THEN ScrapeAjio(doc, url)
    ELSE IF Includes(url, "nykaa.") THEN ScrapeNykaa(doc, url)
    ELSE Null

----------------------------------------------------------------------------
(* URLs, users and the pages the vendors serve *)

Users == {"u1", "u2"}

AmazonUrl == "https://www.amazon.in/dp/ABC123"
FlipkartUrl == "https://www.flipkart.com/p/itm1"
OtherShopUrl == "https://shop.example.com/item/9"
LookalikeUrl == "https://www.amazon.in.example.com/dp/X1"

Urls == {AmazonUrl, FlipkartUrl, OtherShopUrl, LookalikeUrl}

\* new URL(urlString).hostname, for scheme://host/path
Hostname(url) ==
    LET start == CHOOSE i \in 1..(Len(url) - 2) : SubSeq(url, i, i + 2) = "://"
        rest == SubSeq(url, start + 3, Len(url))
    IN  Prefix(rest, {Char(rest, i) : i \in 1..Len(rest)} \ {"/"})

DashboardDomains == <<"amazon.in", "amazon.com", "flipkart.com", "myntra.com", "ajio.com", "nykaa.com">>

\* Dashboard.isValidUrl
IsValidUrl(url) == \E i \in 1..Len(DashboardDomains) : Includes(Hostname(url), DashboardDomains[i])

EndsWith(s, t) == Len(t) <= Len(s) /\ SubSeq(s, Len(s) - Len(t) + 1, Len(s)) = t

\* the URL's host is a supported vendor's domain or a subdomain of one
SupportedDomain(url) ==
    \E i \in 1..Len(DashboardDomains) :
        \/ Hostname(url) = DashboardDomains[i]
        \/ EndsWith(Hostname(url), "." \o DashboardDomains[i])

MousePage ==
    <<Element({"#productTitle"}, " Wireless Mouse "),
      Element({".a-price .a-offscreen"}, "₹799")>>

SoldOutPage ==
    <<Element({".B_NuCI", "h1", "#productTitle"}, "Phone"),
      Element({"._30jeq3", ".a-color-price"}, "Sold out")>>

PhonePage ==
    <<Element({".B_NuCI", "h1"}, "Phone"),
      Element({"._30jeq3"}, "₹1,299.00")>>

Pages == {MousePage, SoldOutPage, PhonePage}

\* the pages each URL may serve
PagesAt(url) == IF Includes(url, "flipkart.com") THEN {SoldOutPage, PhonePage} ELSE {MousePage}

\* what fetch(url) and the HTML parser give: a page, a network failure, no document
FetchOutcomes(url) ==
    {[kind |-> "page", doc |-> doc] : doc \in PagesAt(url)}
        \cup {[kind |-> "network-error", doc |-> <<>>], [kind |-> "no-document", doc |-> <<>>]}

----------------------------------------------------------------------------
(* The tables (migration appended to daily-price-scraper/index.ts) *)

\* a missing uuid and a missing number, as the columns see them
NullId == 0
NullPrice == -1

\* products: user_id references auth.users (original_url and product_name are NOT NULL,
\* and the handler always sends strings for them)
ProductRowAccepted(row) == row.user_id \in Users

\* price_history without its constraints
PriceRowAcceptedUnchecked(prods, row) == TRUE

\* price_history: product_id is NOT NULL and references products(id); price is NOT NULL
PriceRowAccepted(prods, row) ==
    /\ row.product_id # NullId
    /\ \E p \in prods : p.id = row.product_id
    /\ row.price # NullPrice

\* JSON.stringify of a number: NaN becomes null; the column keeps two decimals
JsonPrice(x) == IF x.nan THEN NullPrice ELSE ToDecimal2(x)

PriceRow(id, product_id, platform, url, price, now) ==
    [id |-> id, product_id |-> product_id, platform_name |-> platform, platform_url |-> url,
     price |-> price, currency |-> "INR", in_stock |-> TRUE, scraped_at |-> now]

HistoryOf(ph, pid) == {r \in ph : r.product_id = pid}

\* an insert that replaces the record the table has of the same product and platform
InsertRowsReplacing(table, rows) ==
    {r \in table : \A n \in rows : r.product_id # n.product_id \/ r.platform_name # n.platform_name}
        \cup rows

\* supabase.from('price_history').insert(...) of rows the table accepts
InsertRows(table, rows) == table \cup rows

\* a foreign key that lets the records of a deleted product stay
DeleteWithoutCascade(ph, pid) == ph

\* product_id REFERENCES products(id) ON DELETE CASCADE: what deleting product pid
\* leaves of price_history
DeleteCascade(ph, pid) == {r \in ph : r.product_id # pid}

----------------------------------------------------------------------------
(* scrape-product: the handler *)

NoResponse ==
    [kind |-> "none", status |-> 0, error |-> "", url |-> "", caller |-> "", user_id |-> "",
     served |-> Null, search |-> "", product |-> Null, current_price |-> Null]

\* {error: message}; url is the URL of the request answered
ErrorResponse(status, message, url) ==
    [kind |-> "error", status |-> status, error |-> message, url |-> url, caller |-> "",
     user_id |-> "", served |-> Null, search |-> "", product |-> Null, current_price |-> Null]

\* scrapeProduct(url) for every URL and page of the model
Extraction == [url \in Urls |-> [doc \in Pages \cup {<<>>} |-> ScrapeProduct(doc, url)]]

\* what the call of search-platforms the handler makes after its inserts gives: an
\* exception, an error, a response without results, a response with results
TriggeredSearches == {"throws", "error", "nothing", "results"}

\* a handler that lets the exception of the search out
AfterSearchRethrowing(response, search) ==
    IF search = "throws" THEN ErrorResponse(500, "search failed", response.url) ELSE response

\* try { await supabase.functions.invoke('search-platforms', ...) } catch { log }: the
\* response the handler goes on to send
AfterSearch(response, search) == response

\* The tables, counters and response the handler leaves for the request {url, user_id};
\* `outcome` is what the fetch of the page gives and `search` what the triggered call of
\* search-platforms gives.  That call carries no productId: the listing it tries to
\* save has none
ScrapeHandler(url, user_id, outcome, search) ==
    LET before == [products |-> products, price_history |-> price_history,
                   nextId |-> nextId, clock |-> clock, fetched |-> {}]
        asked == [before EXCEPT !.fetched = {url}]
        productData == Extraction[url][outcome.doc]
        product == [id |-> nextId, user_id |-> user_id, product_name |-> productData.name,
                    original_url |-> url, created_at |-> clock]
        withProduct == [asked EXCEPT !.products = products \cup {product},
                                     !.nextId = nextId + 1, !.clock = clock + 1]
        priceRow == PriceRow(nextId + 1, product.id, productData.platform_name,
                             productData.platform_url, JsonPrice(productData.price), clock)
        listing == PriceRow(nextId + 2, NullId, "Flipkart", "", 100, clock)
        saved == IF search = "results"
                 THEN {r \in {listing} : PriceRowAccepted(withProduct.products, r)}
                 ELSE {}
    IN  IF url = "" \/ user_id = ""
        THEN before @@ [resp |-> ErrorResponse(400, "URL and user_id are required", url)]
        ELSE IF outcome.kind = "network-error"
        THEN asked @@ [resp |-> ErrorResponse(500, "fetch failed", url)]
        ELSE IF outcome.kind = "no-document"
        THEN asked @@ [resp |-> ErrorResponse(500, "Failed to parse HTML", url)]
        ELSE IF productData = Null
        THEN asked @@ [resp |-> ErrorResponse(500, "Unsupported platform", url)]
        ELSE IF ~ProductRowAccepted(product)
        THEN asked @@ [resp |-> ErrorResponse(500, "insert into products rejected", url)]
        ELSE IF ~PriceRowAccepted(withProduct.products, priceRow)
        THEN withProduct @@ [resp |-> ErrorResponse(500, "insert into price_history rejected", url)]
        ELSE [withProduct EXCEPT !.price_history = InsertRows(price_history, {priceRow} \cup saved),
                                 !.nextId = nextId + 2 + Cardinality(saved)]
                @@ [resp |-> AfterSearch(
                                [kind |-> "success", status |-> 200, error |-> "", url |-> url,
                                 caller |-> "", user_id |-> user_id, served |-> outcome, search |-> search,
                                 product |-> product, current_price |-> productData.price],
                                search)]

\* what the triggered search may give for a request: the search is called only when
\* the scrape and both inserts succeeded
SearchesAfter(url, user_id, outcome) ==
    IF ScrapeHandler(url, user_id, outcome, "nothing").resp.kind = "success"
    THEN TriggeredSearches
    ELSE {"not-called"}

\* the handler ran for a request of `caller`, whom it never looks at: the tables and
\* counters it leaves, and its response to that caller
Apply(after, caller) ==
    /\ Cardinality(after.products) <= MaxProducts
    /\ products' = after.products
    /\ price_history' = after.price_history
    /\ nextId' = after.nextId
    /\ clock' = after.clock
    /\ fetched' = after.fetched
    /\ resp' = [after.resp EXCEPT !.caller = caller]

ValidUrls == {url \in Urls : IsValidUrl(url)}

\* Dashboard.handleSubmit: a signed-in user submits a URL the form accepts
HandleSubmit(user, url) ==
    /\ url # "" /\ url \in ValidUrls
    /\ \E outcome \in FetchOutcomes(url) :
          \E search \in SearchesAfter(url, user, outcome) :
              Apply(ScrapeHandler(url, user, outcome, search), user)
    /\ UNCHANGED <<daily, ex, page, sim, match>>

\* the scheduler that starts the daily run
Scheduler == "cron"

\* a request {url, user_id} sent to the scrape-product endpoint by a client signed in
\* as `caller`
InvokeScrapeProduct(caller, user_id, url) ==
    /\ \E outcome \in FetchOutcomes(url) :
          \E search \in SearchesAfter(url, user_id, outcome) :
              Apply(ScrapeHandler(url, user_id, outcome, search), caller)
    /\ UNCHANGED <<daily, ex, page, sim, match>>

----------------------------------------------------------------------------
(* daily-price-scraper: one run, a product per step *)

DailyIdle == [pc |-> "idle", list |-> <<>>, idx |-> 1, successCount |-> 0, errorCount |-> 0,
              slept |-> 0]

\* the sequences holding each row of a set once: the orders a select without ORDER BY
\* may return
Orderings(rows) ==
    {order \in [1..Cardinality(rows) -> rows] : \A r \in rows : \E i \in DOMAIN order : order[i] = r}

\* select * from products
DailyStart ==
    /\ daily.pc = "idle"
    /\ \E list \in Orderings(products) :
          daily' = [DailyIdle EXCEPT !.pc = "loop", !.list = list]
    /\ UNCHANGED <<products, price_history, nextId, clock, fetched, resp, ex, page, sim, match>>

\* one iteration of for (const product of products): the scrape-product call ran
DailyStep ==
    /\ daily.pc = "loop"
    /\ daily.idx <= Len(daily.list)
    /\ LET product == daily.list[daily.idx]
       IN  \E outcome \in FetchOutcomes(product.original_url) :
            \E search \in SearchesAfter(product.original_url, product.user_id, outcome) :
              LET after == ScrapeHandler(product.original_url, product.user_id, outcome, search)
              IN  /\ Apply(after, Scheduler)
                  /\ daily' = IF after.resp.kind = "error"
                              THEN [daily EXCEPT !.idx = @ + 1, !.errorCount = @ + 1]
                              ELSE [daily EXCEPT !.idx = @ + 1, !.successCount = @ + 1,
                                                 !.slept = @ + 1]
    /\ UNCHANGED <<ex, page, sim, match>>

\* a loop that a failed call ends
DailyStepInvokeFailedAborting ==
    /\ daily.pc = "loop"
    /\ daily.idx <= Len(daily.list)
    /\ daily' = [daily EXCEPT !.pc = "done", !.errorCount = @ + 1]
    /\ UNCHANGED <<products, price_history, nextId, clock, fetched, resp, ex, page, sim, match>>

\* one iteration in which supabase.functions.invoke itself failed: the handler never ran
DailyStepInvokeFailed ==
    /\ daily.pc = "loop"
    /\ daily.idx <= Len(daily.list)
    /\ daily' = [daily EXCEPT !.idx = @ + 1, !.errorCount = @ + 1]
    /\ UNCHANGED <<products, price_history, nextId, clock, fetched, resp, ex, page, sim, match>>

\* the loop is over: the run reports successCount and errorCount
DailyFinish ==
    /\ daily.pc = "loop"
    /\ daily.idx > Len(daily.list)
    /\ daily' = [daily EXCEPT !.pc = "done"]
    /\ UNCHANGED <<products, price_history, nextId, clock, fetched, resp, ex, page, sim, match>>

----------------------------------------------------------------------------
(* The handlers together *)

ExIdle == [pc |-> "idle"]
\* the ProductHistory page before its first effect ran: useState's initial values
PageIdle == [pc |-> "idle", user |-> "", productId |-> NullId, product |-> Null,
             priceHistory |-> <<>>, priceStats |-> Null, loading |-> TRUE,
             aiRecommendation |-> Null]
SimIdle == [pc |-> "idle"]
\* the search-platforms handler before a request
MatchIdle == [pc |-> "idle", productName |-> "", productId |-> NullId,
              searchName |-> "", queries |-> <<>>, step |-> 1, served |-> 0, failed |-> 0,
              slept |-> 0, requested |-> <<>>, allResults |-> <<>>, response |-> Null]

Init ==
    /\ products = {}
    /\ price_history = {}
    /\ nextId = 1
    /\ clock = 1
    /\ fetched = {}
    /\ resp = NoResponse
    /\ daily = DailyIdle
    /\ ex = ExIdle
    /\ page = PageIdle
    /\ sim = SimIdle
    /\ match = MatchIdle

Next ==
    \/ \E user \in Users, url \in Urls : HandleSubmit(user, url)
    \/ \E user \in Users, url \in Urls \ ValidUrls : InvokeScrapeProduct(user, user, url)
    \/ DailyStart
    \/ DailyStep
    \/ DailyStepInvokeFailed
    \/ DailyFinish

Spec == Init /\ [][Next]_vars

\* the scrape handler alone: the requests of the users and of other clients
NextSubmit ==
    \/ \E user \in Users, url \in Urls : HandleSubmit(user, url)
    \/ \E caller \in Users, user_id \in Users, url \in Urls :
          InvokeScrapeProduct(caller, user_id, url)

SpecSubmit == Init /\ [][NextSubmit]_vars

\* the daily run while one user submits the URLs of two vendors
NextDaily ==
    \/ \E url \in {AmazonUrl, FlipkartUrl} : HandleSubmit("u1", url)
    \/ DailyStart
    \/ DailyStep
    \/ DailyStepInvokeFailed
    \/ DailyFinish

\* the daily run goes on: every call of the loop returns, and the response is sent
SpecDailyRuns ==
    /\ Init
    /\ [][NextDaily]_vars
    /\ WF_vars(DailyStep \/ DailyStepInvokeFailed)
    /\ WF_vars(DailyFinish)

----------------------------------------------------------------------------
(* Claims about the scrape handler and the daily run (specifications Spec, SpecSubmit) *)

\* a step of the daily run in which the scrape of the product at hand succeeded
DailyScrapeSucceeded == daily.pc = "loop" /\ daily'.successCount = daily.successCount + 1

\* C1: in a daily run, the successful scrape of a loaded product P appends exactly one
\* price record, and that record references P itself
C1_DailyRunAppendsToTrackedProduct ==
    [][DailyScrapeSucceeded =>
          /\ price_history \subseteq price_history'
          /\ Cardinality(price_history' \ price_history) = 1
          /\ \A r \in price_history' \ price_history : r.product_id = daily.list[daily.idx].id
          /\ Cardinality(HistoryOf(price_history', daily.list[daily.idx].id))
                = Cardinality(HistoryOf(price_history, daily.list[daily.idx].id)) + 1]_vars

\* C2: no step of a daily run changes the set of product rows
C2_DailyRunKeepsProducts ==
    [][daily.pc = "loop" /\ daily' # daily => products' = products]_vars

\* the platform name of the vendor whose domain the URL is on
VendorPlatform(url) ==
    IF Includes(Hostname(url), "amazon.") THEN "Amazon"
    ELSE IF Includes(Hostname(url), "flipkart.") THEN "Flipkart"
    ELSE IF Includes(Hostname(url), "myntra.") THEN "Myntra"
    ELSE IF Includes(Hostname(url), "ajio.") THEN "AJIO"
    ELSE "Nykaa"

\* a step in which the handler answered an on-demand request with success
SubmissionSucceeded == daily' = daily /\ nextId' # nextId /\ resp'.kind = "success"

TransportErrors == {"fetch failed", "Failed to parse HTML"}

\* C4: for a URL whose domain is no supported vendor's, the handler answers with the
\* unsupported-vendor error (read in the claim's favour: whenever the page itself could
\* be had), and no product row or price record comes of such a URL
C4_UnsupportedDomainFailsAndWritesNothing ==
    /\ resp.kind # "none" /\ ~SupportedDomain(resp.url) =>
          resp.kind = "error" /\ resp.error \in {"Unsupported platform"} \cup TransportErrors
    /\ \A p \in products : SupportedDomain(p.original_url)
    /\ \A r \in price_history : SupportedDomain(r.platform_url)

\* C5: the handler requests no page of a URL whose domain is no supported vendor's
C5_NoFetchForUnsupportedDomain == \A url \in fetched : SupportedDomain(url)

----------------------------------------------------------------------------
(* The extractors on generated pages (specification SpecExtract) *)

MyntraUrl == "https://www.myntra.com/shirts/1"
AjioUrl == "https://www.ajio.com/p/2"
NykaaUrl == "https://www.nykaa.com/p/3"

VendorUrls == {AmazonUrl, FlipkartUrl, MyntraUrl, AjioUrl, NykaaUrl}

\* the price elements a vendor's page may hold, each by the selectors it matches; on a
\* page of Amazon also an element no price selector matches
PriceElementKinds(url) ==
    IF url = AmazonUrl
        THEN {{"span.a-price-whole", ".a-price-whole"}, {".a-price .a-offscreen"},
              {".a-color-price"}, {}}
    ELSE IF url = FlipkartUrl THEN {{"._30jeq3"}, {"._1_WHN1"}}
    ELSE IF url = MyntraUrl THEN {{".pdp-price strong"}, {"[class*=\"price\"]"}}
    ELSE IF url = AjioUrl THEN {{".prod-sp", "[class*=\"price\"]"}, {"[class*=\"price\"]"}}
    ELSE {{".post-card__content-price-offer", "[class*=\"price\"]"}, {"[class*=\"price\"]"}}

\* the texts a price element may show
PriceTexts == {"₹1,299.00", "₹799", "$12.50", "₹0", "Sold out"}

GeneratedElements(url) ==
    {Element(sels, text) : sels \in PriceElementKinds(url), text \in PriceTexts}

GeneratedPages(url) ==
    UNION {[1..n -> GeneratedElements(url)] : n \in 0..MaxEls}

ExLoaded(url, doc) == [pc |-> "loaded", url |-> url, doc |-> doc, result |-> Null]

InitExtract ==
    /\ products = {}
    /\ price_history = {}
    /\ nextId = 1
    /\ clock = 1
    /\ fetched = {}
    /\ resp = NoResponse
    /\ daily = DailyIdle
    /\ page = PageIdle
    /\ sim = SimIdle
    /\ match = MatchIdle
    /\ \E url \in VendorUrls : \E doc \in GeneratedPages(url) : ex = ExLoaded(url, doc)

\* scrapeProduct on the parsed page: the vendor's extractor runs
Extract ==
    /\ ex.pc = "loaded"
    /\ ex' = [ex EXCEPT !.pc = "done", !.result = ScrapeProduct(ex.doc, ex.url)]
    /\ UNCHANGED <<products, price_history, nextId, clock, fetched, resp, daily, page, sim, match>>

NextExtract == Extract

SpecExtract == InitExtract /\ [][NextExtract]_vars

\* the selectors a vendor's extractor reads the price from
PriceSelectors(url) == UNION PriceElementKinds(url)

\* currency symbol, digits with thousands separators, optionally a dot and two decimals
WellFormedPrice(text) ==
    /\ Len(text) >= 2
    /\ Char(text, 1) \in CurrencySymbols
    /\ LET body == Tail(text)
           whole == Prefix(body, Digits \cup {","})
           rest == SubSeq(body, Len(whole) + 1, Len(body))
       IN  /\ whole # ""
           /\ Char(whole, 1) \in Digits /\ Char(whole, Len(whole)) \in Digits
           /\ ~Includes(whole, ",,")
           /\ \/ rest = ""
              \/ Len(rest) = 3 /\ Char(rest, 1) = "." /\ KeepChars(rest, Digits) = Tail(rest)

\* the value a well-formed price text displays, in hundredths
DisplayedValue(text) ==
    LET body == Tail(text)
        whole == Prefix(body, Digits \cup {","})
        rest == SubSeq(body, Len(whole) + 1, Len(body))
    IN  100 * DigitsValue(RemoveChars(whole, {","})) + DigitsValue(KeepChars(rest, Digits))

\* the positive values the price elements of the page display in well-formed text
ShownPrices(url, doc) ==
    {DisplayedValue(doc[i].text) :
        i \in {j \in 1..Len(doc) : /\ doc[j].sels \cap PriceSelectors(url) # {}
                                    /\ WellFormedPrice(doc[j].text)
                                    /\ DisplayedValue(doc[j].text) > 0}}

\* C6: on a page of a supported vendor with a price element that shows a well-formed
\* price, the extracted price is positive and is the displayed value of such an
\* element; and what the extractor returns is never a text's failed parse
C6_WellFormedPriceExtracted ==
    ex.pc = "done" =>
        /\ ShownPrices(ex.url, ex.doc) # {} =>
              /\ Positive(ex.result.price)
              /\ ToDecimal2(ex.result.price) \in ShownPrices(ex.url, ex.doc)
        /\ ~ex.result.price.nan

----------------------------------------------------------------------------
(* The ProductHistory page over a stored history (specification SpecStats) *)

TrackedProduct ==
    [id |-> 1, user_id |-> "u1", product_name |-> "teapot", original_url |-> AmazonUrl,
     created_at |-> 1]

\* the prices of the stored records, in hundredths
StatPrices == {8000, 10000, 12000, 79999}

\* the prices of the records a recommendation is asked for, in hundredths
RecPrices == {8000, 10000, 11000, 12000}

\* the price_history tables of up to MaxHistory records of a product
HistoryTables(product) ==
    UNION {{{PriceRow(i + 1, product.id, "Amazon", product.original_url, f[i].price, f[i].at) :
                i \in 1..n} :
              f \in [1..n -> [price : StatPrices, at : 1..MaxTime]]} : n \in 0..MaxHistory}

InitStats ==
    /\ products = {TrackedProduct}
    /\ price_history \in HistoryTables(TrackedProduct)
    /\ nextId = MaxHistory + 2
    /\ clock = MaxTime + 1
    /\ fetched = {}
    /\ resp = NoResponse
    /\ daily = DailyIdle
    /\ ex = ExIdle
    /\ page = PageIdle
    /\ sim = SimIdle
    /\ match = MatchIdle

\* row level security: a user sees the products they own, and the price records of
\* the products they own
VisibleProducts(user) == {p \in products : p.user_id = user}

VisibleHistory(user) ==
    {r \in price_history : \E p \in products : p.id = r.product_id /\ p.user_id = user}

\* .order("scraped_at", {ascending: false}): the rows in any order that never ascends
OrderedByScrapedAtDesc(rows) ==
    {order \in Orderings(rows) :
        \A i \in 1..(Len(order) - 1) : order[i].scraped_at >= order[i + 1].scraped_at}

PriceDouble == [c \in StatPrices \cup RecPrices |-> DoubleOfDecimal(c)]

\* prices.reduce((a, b) => a + b, 0) up to element i
RECURSIVE SumPrices(_, _)
SumPrices(prices, i) ==
    IF i = 0 THEN DoubleZero ELSE DoubleAdd(SumPrices(prices, i - 1), prices[i])

\* Math.min(...prices) and Math.max(...prices)
MathMin(prices) ==
    CHOOSE x \in {prices[i] : i \in DOMAIN prices} :
        \A i \in DOMAIN prices : DoubleLeq(x, prices[i])

MathMax(prices) ==
    CHOOSE x \in {prices[i] : i \in DOMAIN prices} :
        \A i \in DOMAIN prices : DoubleLeq(prices[i], x)

PriceStats(historyData) ==
    LET prices == [i \in DOMAIN historyData |-> PriceDouble[historyData[i].price]]
    IN  [min |-> MathMin(prices), max |-> MathMax(prices),
         avg |-> DoubleDiv(SumPrices(prices, Len(prices)), Len(prices)),
         current |-> prices[1]]

\* the effect on [user, productId] with nobody signed in: navigate("/auth")
RedirectToAuth ==
    /\ page.pc = "idle"
    /\ page' = [page EXCEPT !.pc = "auth"]
    /\ UNCHANGED <<products, price_history, nextId, clock, fetched, resp, daily, ex, sim, match>>

\* the effect on [user, productId] with a user signed in: fetchProductData.  The
\* statistics are set only when the history has records
FetchProductData(user, productId) ==
    /\ page.pc = "idle"
    /\ LET found == {p \in VisibleProducts(user) : p.id = productId}
           rows == {r \in VisibleHistory(user) : r.product_id = productId}
       IN  \E historyData \in OrderedByScrapedAtDesc(rows) :
              page' = [page EXCEPT
                          !.pc = "shown", !.user = user, !.productId = productId,
                          !.product = IF found = {} THEN Null ELSE CHOOSE p \in found : TRUE,
                          !.priceHistory = historyData,
                          !.priceStats = IF historyData # <<>> THEN PriceStats(historyData)
                                         ELSE page.priceStats,
                          !.loading = FALSE]
    /\ UNCHANGED <<products, price_history, nextId, clock, fetched, resp, daily, ex, sim, match>>

NextStats ==
    \/ RedirectToAuth
    \/ \E user \in Users, productId \in {TrackedProduct.id, TrackedProduct.id + 1} :
          FetchProductData(user, productId)

SpecStats == InitStats /\ [][NextStats]_vars

\* the prices of the loaded history, as loaded
LoadedPrices == [i \in DOMAIN page.priceHistory |-> page.priceHistory[i].price]

\* C7: for a loaded history that is not empty, min <= current <= max and
\* min <= avg <= max, current is the price of a record whose capture time is the
\* latest, and the history 100, 120, 80, 100 gives current 100, min 80, max 120, avg 100
C7_StatisticsWithinBounds ==
    page.pc = "shown" /\ page.priceHistory # <<>> =>
        LET stats == page.priceStats
        IN  /\ stats # Null
            /\ DoubleLeq(stats.min, stats.current) /\ DoubleLeq(stats.current, stats.max)
            /\ DoubleLeq(stats.min, stats.avg) /\ DoubleLeq(stats.avg, stats.max)
            /\ \E r \in price_history :
                  /\ \A o \in price_history : o.scraped_at <= r.scraped_at
                  /\ stats.current = DoubleOfDecimal(r.price)
            /\ LoadedPrices = <<10000, 12000, 8000, 10000>> =>
                  stats = [current |-> DoubleOfDecimal(10000), min |-> DoubleOfDecimal(8000),
                           max |-> DoubleOfDecimal(12000), avg |-> DoubleOfDecimal(10000)]

----------------------------------------------------------------------------
(* The platform matcher: calculateSimilarity (specification SpecSim) *)

UpperCase == "ABCDEFGHIJKLMNOPQRSTUVWXYZ"
LowerCase == "abcdefghijklmnopqrstuvwxyz"

LowerChar(c) ==
    IF \E i \in 1..Len(UpperCase) : Char(UpperCase, i) = c
    THEN Char(LowerCase, CHOOSE i \in 1..Len(UpperCase) : Char(UpperCase, i) = c)
    ELSE c

\* String.prototype.toLowerCase
RECURSIVE ToLowerCase(_)
ToLowerCase(s) == IF s = "" THEN "" ELSE LowerChar(Char(s, 1)) \o ToLowerCase(Tail(s))

\* s.split(sep) for a separator of one character
RECURSIVE Split(_, _)
Split(s, sep) ==
    IF ~Includes(s, sep) THEN <<s>>
    ELSE LET first == Prefix(s, {Char(s, i) : i \in 1..Len(s)} \ {sep})
         IN  <<first>> \o Split(SubSeq(s, Len(first) + 2, Len(s)), sep)

\* str.toLowerCase().split(' ').filter(w => w.length > 2)
SignificantWords(str) ==
    LET IsSignificant(w) == Len(w) > 2 IN SelectSeq(Split(ToLowerCase(str), " "), IsSignificant)

\* a JavaScript quotient of two small whole numbers: num / den, NaN for 0 / 0
Ratio(num, den) ==
    IF den = 0 THEN [nan |-> TRUE, num |-> 0, den |-> 0] ELSE [nan |-> FALSE, num |-> num, den |-> den]

\* r > p / q for the literals 0.3 and 0.8: the double nearest to p / q is what the
\* literal denotes and what a quotient equal to p / q rounds to, and rounding keeps order
RatioGreater(r, p, q) == ~r.nan /\ r.num * q > p * r.den

\* calculateSimilarity: the words of str1 that contain or are contained in a word of
\* str2, over the greater of the two word counts
CalculateSimilarity(str1, str2) ==
    LET words1 == SignificantWords(str1)
        words2 == SignificantWords(str2)
        matched == {i \in DOMAIN words1 :
                       \E j \in DOMAIN words2 :
                          Includes(words1[i], words2[j]) \/ Includes(words2[j], words1[i])}
    IN  Ratio(Cardinality(matched),
              IF Len(words1) > Len(words2) THEN Len(words1) ELSE Len(words2))

\* the words names are made of
NameWords == {"tea", "Tea", "pot", "teapot", "of"}

RECURSIVE JoinWords(_)
JoinWords(ws) ==
    IF ws = <<>> THEN ""
    ELSE IF Len(ws) = 1 THEN ws[1]
    ELSE ws[1] \o " " \o JoinWords(Tail(ws))

\* the names of up to MaxWords words
GeneratedNames == {JoinWords(ws) : ws \in UNION {[1..n -> NameWords] : n \in 0..MaxWords}}

SimGiven(a, b) == [pc |-> "given", a |-> a, b |-> b, ab |-> Ratio(0, 0), ba |-> Ratio(0, 0)]

InitSim ==
    /\ products = {}
    /\ price_history = {}
    /\ nextId = 1
    /\ clock = 1
    /\ fetched = {}
    /\ resp = NoResponse
    /\ daily = DailyIdle
    /\ ex = ExIdle
    /\ page = PageIdle
    /\ match = MatchIdle
    /\ \E a \in GeneratedNames, b \in GeneratedNames : sim = SimGiven(a, b)

\* calculateSimilarity applied to the two names, each way round
Compare ==
    /\ sim.pc = "given"
    /\ sim' = [sim EXCEPT !.pc = "done", !.ab = CalculateSimilarity(sim.a, sim.b),
                          !.ba = CalculateSimilarity(sim.b, sim.a)]
    /\ UNCHANGED <<products, price_history, nextId, clock, fetched, resp, daily, ex, page, match>>

NextSim == Compare

SpecSim == InitSim /\ [][NextSim]_vars

\* the words of a that contain or are contained in a word of b
MatchedWords(a, b) ==
    {i \in DOMAIN SignificantWords(a) :
        \E j \in DOMAIN SignificantWords(b) :
            \/ Includes(SignificantWords(a)[i], SignificantWords(b)[j])
            \/ Includes(SignificantWords(b)[j], SignificantWords(a)[i])}

\* C8: the score of a and b is the score of b and a, and it is the fraction of the
\* significant words of the name that has more of them that have a containment match
\* in the other name
C8_SimilaritySymmetric ==
    sim.pc = "done" =>
        /\ sim.ab = sim.ba
        /\ Len(SignificantWords(sim.a)) > Len(SignificantWords(sim.b)) =>
              /\ sim.ab = Ratio(Cardinality(MatchedWords(sim.a, sim.b)), Len(SignificantWords(sim.a)))
              /\ sim.ba = Ratio(Cardinality(MatchedWords(sim.a, sim.b)), Len(SignificantWords(sim.a)))

----------------------------------------------------------------------------
(* The platform matcher: the search-platforms handler (specification SpecMatch) *)

WordChars ==
    {Char(UpperCase, i) : i \in 1..Len(UpperCase)} \cup {Char(LowerCase, i) : i \in 1..Len(LowerCase)}
        \cup Digits \cup {"_"}

\* s.replace(/[chars]/g, by)
RECURSIVE ReplaceChars(_, _, _)
ReplaceChars(s, chars, by) ==
    IF s = "" THEN ""
    ELSE (IF Char(s, 1) \in chars THEN by ELSE Char(s, 1)) \o ReplaceChars(Tail(s), chars, by)

\* s.replace(/\s+/g, ' ')
RECURSIVE CollapseSpaces(_)
CollapseSpaces(s) ==
    IF s = "" THEN ""
    ELSE IF Char(s, 1) \in Whitespace THEN " " \o CollapseSpaces(TrimStart(s))
    ELSE Char(s, 1) \o CollapseSpaces(Tail(s))

Descriptors ==
    {"with", "without", "pack", "jar", "bottle", "ml", "g", "kg", "ltr", "litre", "piece", "pieces"}

\* s.replace(/\b(with|without|...|pieces?)\b/gi, ''): the whole words that are descriptors
RECURSIVE RemoveDescriptors(_)
RemoveDescriptors(s) ==
    IF s = "" THEN ""
    ELSE IF Char(s, 1) \in WordChars
         THEN LET word == Prefix(s, WordChars)
              IN  (IF ToLowerCase(word) \in Descriptors THEN "" ELSE word)
                      \o RemoveDescriptors(SubSeq(s, Len(word) + 1, Len(s)))
         ELSE Char(s, 1) \o RemoveDescriptors(Tail(s))

CleanProductName(productName) ==
    Trim(RemoveDescriptors(CollapseSpaces(
        ReplaceChars(ReplaceChars(productName, {"|"}, " "), {"(", ")", "[", "]"}, " "))))

Platforms ==
    <<[name |-> "Flipkart", baseUrl |-> "https://www.flipkart.com"],
      [name |-> "BigBasket", baseUrl |-> "https://www.bigbasket.com"],
      [name |-> "Blinkit", baseUrl |-> "https://blinkit.com"]>>

\* priceText.match(/[\d,]+(?:\.\d{2})?/): the leftmost match, "" when there is none
RECURSIVE PriceMatch(_)
PriceMatch(text) ==
    IF text = "" THEN ""
    ELSE IF Char(text, 1) \in Digits \cup {","}
         THEN LET run == Prefix(text, Digits \cup {","})
                  after == SubSeq(text, Len(run) + 1, Len(text))
              IN  IF /\ Len(after) >= 3
                     /\ Char(after, 1) = "."
                     /\ Char(after, 2) \in Digits
                     /\ Char(after, 3) \in Digits
                  THEN run \o SubSeq(after, 1, 3)
                  ELSE run
         ELSE PriceMatch(Tail(text))

\* x < y on numbers that are not NaN
NumLess(x, y) == x.m * Pow10(y.e) < y.m * Pow10(x.e)

\* the names and price texts of the listings the vendors' search pages show
ListingNames == {"tea", "pot", "teapot", "mug"}
ListingPriceTexts == {"₹3", "₹5", "₹10"}

Listings == [name : ListingNames, priceText : ListingPriceTexts]

\* the search pages of up to n product containers showing the given listings
ListingPages(listings, n) == UNION {[1..k -> listings] : k \in 0..n}

\* what a search request gives: a page of containers, a status that is not ok, an
\* exception of fetch, no document
SearchOutcomes(pages) ==
    {[kind |-> "page", containers |-> containers] : containers \in pages}
        \cup {[kind |-> kind, containers |-> <<>>] : kind \in {"status", "exception", "no-document"}}

Similarities == [a \in ListingNames \cup {TrackedProduct.product_name} |->
                    [b \in ListingNames |-> CalculateSimilarity(a, b)]]

\* calculateSimilarity, looked up where the table has the names
Similarity(a, b) ==
    IF a \in DOMAIN Similarities /\ b \in ListingNames THEN Similarities[a][b]
    ELSE CalculateSimilarity(a, b)

\* a loop body without the check of the numeric price
ContainerResultUnchecked(platform, originalProduct, container) ==
    LET name == Trim(container.name)
        priceMatch == PriceMatch(Trim(container.priceText))
    IN  IF name = "" \/ priceMatch = "" THEN <<>>
        ELSE <<[platform |-> platform.name, name |-> name,
                numericPrice |-> ParseFloat(RemoveChars(priceMatch, {","})),
                url |-> platform.baseUrl \o "/" \o container.name]>>

\* the body of the loop over the containers: the result pushed for container i, if any
ContainerResult(platform, originalProduct, container) ==
    LET name == Trim(container.name)
        priceText == Trim(container.priceText)
        priceMatch == PriceMatch(priceText)
        numericPrice == ParseFloat(RemoveChars(priceMatch, {","}))
        href == "/" \o container.name
    IN  IF name = "" \/ priceText = "" \/ priceMatch = "" THEN <<>>
        ELSE IF numericPrice.nan \/ ~Positive(numericPrice) THEN <<>>
        ELSE IF RatioGreater(Similarity(originalProduct, name), 3, 10)
        THEN <<[platform |-> platform.name, name |-> name, numericPrice |-> numericPrice,
                url |-> platform.baseUrl \o href]>>
        ELSE <<>>

RECURSIVE ContainerResults(_, _, _, _)
ContainerResults(platform, originalProduct, containers, i) ==
    IF i > Len(containers) \/ i > 5 THEN <<>>
    ELSE ContainerResult(platform, originalProduct, containers[i])
            \o ContainerResults(platform, originalProduct, containers, i + 1)

\* searchPlatform: the results of one request
SearchPlatformResults(platform, originalProduct, outcome) ==
    IF outcome.kind = "page" THEN ContainerResults(platform, originalProduct, outcome.containers, 1)
    ELSE <<>>

\* a loop that forgets what it has gathered when a search fails
PushResultsLosing(allResults, platformResults, outcome) ==
    IF outcome.kind = "page" THEN allResults \o platformResults ELSE <<>>

\* allResults.push(...platformResults)
PushResults(allResults, platformResults, outcome) == allResults \o platformResults

\* the name searched for: the request's, or the stored product's, or the part of the
\* stored URL before /dp/ with its dashes made spaces
ResolveName(productName, productId) ==
    IF Trim(productName) = "" /\ productId # NullId
    THEN LET found == {p \in products : p.id = productId}
         IN  IF Cardinality(found) # 1 THEN productName
             ELSE LET productData == CHOOSE p \in found : TRUE
                      urlParts == Split(productData.original_url, "/")
                      hasDp == \E i \in 2..Len(urlParts) : urlParts[i] = "dp"
                      dpIndex == CHOOSE i \in 2..Len(urlParts) :
                                    urlParts[i] = "dp" /\ \A j \in 1..(i - 1) : urlParts[j] # "dp"
                  IN  IF productData.product_name # "" THEN productData.product_name
                      ELSE IF /\ Includes(productData.original_url, "/dp/")
                              /\ hasDp
                              /\ urlParts[1] # "dp"
                              /\ urlParts[dpIndex - 1] # ""
                      THEN ReplaceChars(urlParts[dpIndex - 1], {"-"}, " ")
                      ELSE productData.product_name
    ELSE productName

\* every built query longer than three characters, without the limit of two
SearchQueriesUnlimited(searchName, brandName) ==
    LET cleanedName == CleanProductName(searchName)
        LongEnough(q) == Len(q) > 3
    IN  SelectSeq(<<cleanedName, Trim(brandName \o " " \o cleanedName),
                    Trim(Split(searchName, "|")[1])>>, LongEnough)

\* the queries searched: the first two of the built ones longer than three characters
SearchQueries(searchName, brandName) ==
    LET cleanedName == CleanProductName(searchName)
        LongEnough(q) == Len(q) > 3
        built == SelectSeq(<<cleanedName, Trim(brandName \o " " \o cleanedName),
                             Trim(Split(searchName, "|")[1])>>, LongEnough)
    IN  SubSeq(built, 1, IF Len(built) < 2 THEN Len(built) ELSE 2)

\* the (platform, query) pairs in the order of the two loops
SearchPairs(queries) ==
    [k \in 1..(Len(Platforms) * Len(queries)) |->
        [platform |-> Platforms[((k - 1) \div Len(queries)) + 1],
         query |-> queries[((k - 1) % Len(queries)) + 1]]]

\* item and current are of one platform and more than 0.8 similar, as the reduce asks
SimilarListing(item, current) ==
    /\ item.platform = current.platform
    /\ RatioGreater(Similarity(item.name, current.name), 8, 10)

\* allResults.reduce(...) over the first i results
RECURSIVE UniqueResults(_, _)
UniqueResults(allResults, i) ==
    IF i = 0 THEN <<>>
    ELSE LET acc == UniqueResults(allResults, i - 1)
             current == allResults[i]
             hits == {k \in DOMAIN acc : SimilarListing(acc[k], current)}
             existing == acc[CHOOSE k \in hits : \A h \in hits : k <= h]
             Differs(item) == ~SimilarListing(item, current)
         IN  IF hits = {} \/ NumLess(current.numericPrice, existing.numericPrice)
             THEN Append(SelectSeq(acc, Differs), current)
             ELSE acc

\* results.sort((a, b) => a.numericPrice - b.numericPrice), a stable sort
RECURSIVE SortByPrice(_, _)
SortByPrice(results, i) ==
    IF i = 0 THEN <<>>
    ELSE LET sorted == SortByPrice(results, i - 1)
             NotAfter(item) == ~NumLess(results[i].numericPrice, item.numericPrice)
             After(item) == NumLess(results[i].numericPrice, item.numericPrice)
         IN  SelectSeq(sorted, NotAfter) \o <<results[i]>> \o SelectSeq(sorted, After)

\* the rows of the results the table accepts, with fresh ids in the order of the results
RECURSIVE SavedRows(_, _, _, _)
SavedRows(results, i, id, productId) ==
    IF i > Len(results) THEN {}
    ELSE LET row == PriceRow(id, productId, results[i].platform, results[i].url,
                             JsonPrice(results[i].numericPrice), clock)
         IN  IF PriceRowAccepted(products, row)
             THEN {row} \cup SavedRows(results, i + 1, id + 1, productId)
             ELSE SavedRows(results, i + 1, id, productId)

InitMatch ==
    /\ products = {TrackedProduct}
    /\ price_history = {}
    /\ nextId = 2
    /\ clock = 1
    /\ fetched = {}
    /\ resp = NoResponse
    /\ daily = DailyIdle
    /\ ex = ExIdle
    /\ page = PageIdle
    /\ sim = SimIdle
    /\ match = MatchIdle

\* the handler takes the request {productName, productId}: it resolves the name and
\* builds the queries, or answers at once that a name is required
SearchRequest(productName, productId) ==
    /\ match.pc = "idle"
    /\ LET searchName == ResolveName(productName, productId)
       IN  match' = IF Trim(searchName) = ""
                    THEN [match EXCEPT !.pc = "done", !.productName = productName,
                                       !.productId = productId,
                                       !.response = [status |-> 200, results |-> <<>>,
                                                     bestDeal |-> Null]]
                    ELSE [match EXCEPT !.pc = "searching", !.productName = productName,
                                       !.productId = productId,
                                       !.searchName = searchName,
                                       !.queries = SearchQueries(searchName, "")]
    /\ UNCHANGED <<products, price_history, nextId, clock, fetched, resp, daily, ex, page, sim>>

\* one turn of the loops over platforms and queries: searchPlatform ran; `failed` counts
\* the turns whose search logged a failure
SearchPlatformFrom(listings) ==
    /\ match.pc = "searching"
    /\ match.step <= Len(SearchPairs(match.queries))
    /\ \E outcome \in SearchOutcomes(ListingPages(listings, MaxListings - match.served)) :
          match' = [match EXCEPT
                       !.step = @ + 1,
                       !.served = @ + Len(outcome.containers),
                       !.failed = @ + (IF outcome.kind = "page" THEN 0 ELSE 1),
                       !.slept = @ + (IF outcome.kind = "page" THEN 1 ELSE 0),
                       !.requested = Append(@, SearchPairs(match.queries)[match.step]),
                       !.allResults = PushResults(@, SearchPlatformResults(
                                               SearchPairs(match.queries)[match.step].platform,
                                               match.searchName, outcome), outcome)]
    /\ UNCHANGED <<products, price_history, nextId, clock, fetched, resp, daily, ex, page, sim>>

\* after the loops: the duplicates go, the results are sorted and saved, and the
\* response names the first of them as the best deal
SearchRespond ==
    /\ match.pc = "searching"
    /\ match.step > Len(SearchPairs(match.queries))
    /\ LET unique == UniqueResults(match.allResults, Len(match.allResults))
           uniqueResults == SortByPrice(unique, Len(unique))
           saved == SavedRows(uniqueResults, 1, nextId, match.productId)
       IN  /\ price_history' = InsertRows(price_history, saved)
           /\ nextId' = nextId + Cardinality(saved)
           /\ match' = [match EXCEPT
                           !.pc = "done",
                           !.response = [status |-> 200, results |-> uniqueResults,
                                         bestDeal |-> IF Len(uniqueResults) > 0
                                                      THEN uniqueResults[1] ELSE Null]]
    /\ clock' = clock + 1
    /\ UNCHANGED <<products, fetched, resp, daily, ex, page, sim>>

SearchPlatform == SearchPlatformFrom(Listings)

NextMatch ==
    \/ \E productName \in {TrackedProduct.product_name, ""},
          productId \in {TrackedProduct.id, NullId} : SearchRequest(productName, productId)
    \/ SearchPlatform
    \/ SearchRespond

SpecMatch == InitMatch /\ [][NextMatch]_vars

\* how often the candidate c is among the results
Occurrences(results, c) == Cardinality({k \in DOMAIN results : results[k] = c})

\* no accepted candidate but those at i and j is of the platform of c, similar to c
\* one way or the other, and not dearer than the price
Undisturbed(all, i, j, c, price) ==
    \A k \in DOMAIN all \ {i, j} :
        \/ all[k].platform # c.platform
        \/ NumLess(price, all[k].numericPrice)
        \/ ~SimilarListing(all[k], c) /\ ~SimilarListing(c, all[k])

\* C9: of two accepted candidates of one vendor that are more than 0.8 similar to each
\* other, in either order of arrival, the results keep exactly one, the lower-priced
\* (read in the claim's favour: when no third candidate of that vendor, as cheap as the
\* cheaper of the two, is similar to either of them)
C9_DeduplicationKeepsLowerPriced ==
    match.pc = "done" =>
        \A i \in DOMAIN match.allResults, j \in DOMAIN match.allResults :
            LET a == match.allResults[i]
                b == match.allResults[j]
            IN  /\ i # j /\ a # b
                /\ SimilarListing(a, b) /\ SimilarListing(b, a)
                /\ ~NumLess(b.numericPrice, a.numericPrice)
                /\ Undisturbed(match.allResults, i, j, a, a.numericPrice)
                /\ Undisturbed(match.allResults, i, j, b, a.numericPrice)
                => /\ Occurrences(match.response.results, a)
                        + Occurrences(match.response.results, b) = 1
                   /\ NumLess(a.numericPrice, b.numericPrice) =>
                        Occurrences(match.response.results, a) = 1

\* C10: the results are in ascending order of price, and the best deal is the
\* lowest-priced of all the accepted candidates, absent only when none was accepted
C10_BestDealIsLowestAccepted ==
    match.pc = "done" =>
        LET results == match.response.results
            best == match.response.bestDeal
        IN  /\ \A k \in 1..(Len(results) - 1) :
                  ~NumLess(results[k + 1].numericPrice, results[k].numericPrice)
            /\ best = Null <=> match.allResults = <<>>
            /\ best # Null =>
                  \A k \in DOMAIN match.allResults :
                      ~NumLess(match.allResults[k].numericPrice, best.numericPrice)

\* the price records that hold the candidate c for the product pid
RecordsOf(c, pid) ==
    {r \in price_history :
        /\ r.product_id = pid
        /\ r.platform_name = c.platform
        /\ r.platform_url = c.url
        /\ r.price = JsonPrice(c.numericPrice)}

\* C11: every candidate among the results of a finished search is held by a price
\* record of the originating product, whether the request came from the product page
\* (with the product's id) or from the scrape handler after a submission (without it)
C11_AcceptedCandidatesPersisted ==
    match.pc = "done" =>
        \A k \in DOMAIN match.response.results :
            RecordsOf(match.response.results[k], TrackedProduct.id) # {}

----------------------------------------------------------------------------
(* search-platforms over the stored products (specification SpecSearch) *)

\* an Amazon address with the product's name before /dp/
AmazonNamedUrl == "https://www.amazon.in/tea-pot/dp/ABC123"

\* the products the table may hold for the request: with a name or, when the extractor
\* found a price and no title, without one
StoredProducts ==
    {[TrackedProduct EXCEPT !.product_name = name, !.original_url = url] :
        name \in {"teapot", ""}, url \in {AmazonUrl, AmazonNamedUrl, FlipkartUrl}}

\* an id no product has
UnknownId == 9

\* the listings the search pages show in this specification
FewListings == {l \in Listings : l.name \in {"teapot", "mug"} /\ l.priceText \in {"₹3", "₹5"}}

InitSearch ==
    /\ products \in {{p} : p \in StoredProducts}
    /\ price_history = {}
    /\ nextId = 2
    /\ clock = 1
    /\ fetched = {}
    /\ resp = NoResponse
    /\ daily = DailyIdle
    /\ ex = ExIdle
    /\ page = PageIdle
    /\ sim = SimIdle
    /\ match = MatchIdle

NextSearch ==
    \/ \E productName \in {"teapot", ""},
          productId \in {TrackedProduct.id, UnknownId, NullId} :
            SearchRequest(productName, productId)
    \/ SearchPlatformFrom(FewListings)
    \/ SearchRespond

SpecSearch == InitSearch /\ [][NextSearch]_vars

\* C12: whatever a (vendor, query) pair gives (a page, a status that is not ok, an
\* exception, no document), the search moves on to the next pair with everything
\* gathered so far; the response comes only after the last pair, is a success, and its
\* results are gathered candidates, at least one of them when any was gathered (which
\* of two similar candidates stays is the matter of C9)
C12_PairFailureDoesNotAbort ==
    [][/\ match.pc = "searching" /\ match'.pc = "searching" =>
            /\ match'.step = match.step + 1
            /\ Len(match'.allResults) >= Len(match.allResults)
            /\ SubSeq(match'.allResults, 1, Len(match.allResults)) = match.allResults
       /\ match.pc = "searching" /\ match'.pc = "done" =>
            /\ match.step = Len(Platforms) * Len(match.queries) + 1
            /\ match'.allResults = match.allResults
            /\ match'.response.status = 200
            /\ \A k \in DOMAIN match'.response.results :
                  \E i \in DOMAIN match.allResults :
                      match'.response.results[k] = match.allResults[i]
            /\ match.allResults # <<>> => match'.response.results # <<>>]_vars

\* C12 witness: a search has answered with candidates although a pair's search failed
C12_Witness ==
    /\ match.pc = "done"
    /\ match.failed >= 1
    /\ match.response.status = 200
    /\ match.response.results # <<>>

----------------------------------------------------------------------------
(* ai-purchase-recommendation, called from the history page (specification SpecRec) *)

\* the replies of the language model: prose, the JSON asked for, JSON of another shape
ProseReply == "I would wait for a sale."
GoodReply == "{\"shouldBuy\":false,\"reason\":\"The price is falling\",\"pricePoint\":\"Fair price\",\"confidence\":80}"
OtherShapeReply == "{\"answer\":\"wait\"}"

ReplyContents == {ProseReply, GoodReply, OtherShapeReply}

\* JSON.parse on those replies: the value, or a SyntaxError
JsonParse(text) ==
    IF text = GoodReply
    THEN [ok |-> TRUE,
          value |-> [shouldBuy |-> FALSE, reason |-> "The price is falling",
                     pricePoint |-> "Fair price", confidence |-> 80]]
    ELSE IF text = OtherShapeReply
    THEN [ok |-> TRUE, value |-> [answer |-> "wait"]]
    ELSE [ok |-> FALSE, value |-> Null]

\* what the call of the model gives: no API key configured, an exception of fetch, a
\* status that is not ok, a body without choices, a reply
ModelOutcomes ==
    {[kind |-> kind, content |-> ""] : kind \in {"no-key", "exception", "status", "no-choices"}}
        \cup {[kind |-> "reply", content |-> content] : content \in ReplyContents}

\* the literal 1.1
OnePointOne == DoubleOfDecimal(110)

\* a fallback that advises to buy only below the average
FallbackRecommendationStrict(analysisData) ==
    LET below == DoubleLess(analysisData.currentPrice, analysisData.avgPrice)
    IN  [shouldBuy |-> below,
         reason |-> "Current price is " \o (IF below THEN "below" ELSE "above")
                        \o " average. Analysis based on price history.",
         pricePoint |->
             IF DoubleLeq(analysisData.currentPrice, DoubleMul(analysisData.minPrice, OnePointOne))
             THEN "Great deal"
             ELSE IF below THEN "Good price" ELSE "Above average",
         confidence |-> 75]

\* the recommendation built when the reply does not parse
FallbackRecommendation(analysisData) ==
    LET below == DoubleLeq(analysisData.currentPrice, analysisData.avgPrice)
    IN  [shouldBuy |-> below,
         reason |-> "Current price is " \o (IF below THEN "below" ELSE "above")
                        \o " average. Analysis based on price history.",
         pricePoint |->
             IF DoubleLeq(analysisData.currentPrice, DoubleMul(analysisData.minPrice, OnePointOne))
             THEN "Great deal"
             ELSE IF below THEN "Good price" ELSE "Above average",
         confidence |-> 75]

\* the handler's response to the request body {product, priceHistory, priceStats}, the
\* numbers of which pass through JSON unchanged
RecommendationHandler(body, outcome) ==
    LET failure == [status |-> 500, error |-> "Failed to generate recommendation",
                    recommendation |-> Null]
        analysisData == [currentPrice |-> body.priceStats.current,
                         minPrice |-> body.priceStats.min,
                         maxPrice |-> body.priceStats.max,
                         avgPrice |-> body.priceStats.avg]
        parsed == JsonParse(outcome.content)
    IN  IF outcome.kind # "reply" THEN failure
        ELSE [status |-> 200, error |-> "",
              recommendation |-> IF parsed.ok THEN parsed.value
                                 ELSE FallbackRecommendation(analysisData)]

\* the histories of up to n records of a product, a record a day, the latest first
DatedHistoryTables(product, prices, n) ==
    UNION {{{PriceRow(i + 1, product.id, "Amazon", product.original_url, f[i], k + 1 - i) :
                i \in 1..k} : f \in [1..k -> prices]} : k \in 0..n}

InitRec ==
    /\ products = {TrackedProduct}
    /\ price_history \in DatedHistoryTables(TrackedProduct, RecPrices, MaxRecords)
    /\ nextId = MaxRecords + 2
    /\ clock = MaxRecords + 1
    /\ fetched = {}
    /\ resp = NoResponse
    /\ daily = DailyIdle
    /\ ex = ExIdle
    /\ page = PageIdle
    /\ sim = SimIdle
    /\ match = MatchIdle

\* getAIRecommendation: the page asks for a recommendation on what it shows and keeps
\* the one it gets
GetAIRecommendation(outcome) ==
    /\ page.pc = "shown"
    /\ page.product # Null /\ page.priceStats # Null
    /\ LET body == [product |-> page.product,
                    priceHistory |-> SubSeq(page.priceHistory, 1,
                                            IF Len(page.priceHistory) < 20
                                            THEN Len(page.priceHistory) ELSE 20),
                    priceStats |-> page.priceStats]
           response == RecommendationHandler(body, outcome)
       IN  /\ resp' = [kind |-> "recommendation", status |-> response.status,
                       error |-> response.error, served |-> outcome,
                       recommendation |-> response.recommendation]
           /\ page' = [page EXCEPT
                          !.aiRecommendation = IF response.status = 200
                                               THEN response.recommendation ELSE @]
    /\ UNCHANGED <<products, price_history, nextId, clock, fetched, daily, ex, sim, match>>

NextRec ==
    \/ \E user \in Users, productId \in {TrackedProduct.id, TrackedProduct.id + 1} :
          FetchProductData(user, productId)
    \/ \E outcome \in ModelOutcomes : GetAIRecommendation(outcome)

SpecRec == InitRec /\ [][NextRec]_vars

\* the call of the model failed, or its reply is not the JSON asked for
ModelCallFailed(outcome) ==
    \/ outcome.kind # "reply"
    \/ outcome.content # GoodReply

\* the statistics the page sent, as the handler reads them
SentStatistics ==
    [currentPrice |-> page.priceStats.current, minPrice |-> page.priceStats.min,
     maxPrice |-> page.priceStats.max, avgPrice |-> page.priceStats.avg]

\* C13: when the call of the model fails (no key, exception, status not ok) or its
\* reply is not JSON of the expected shape, the handler answers with the recommendation
\* of the fallback rule, not with an error
C13_FallbackOnModelFailure ==
    resp.kind = "recommendation" /\ ModelCallFailed(resp.served) =>
        /\ resp.status = 200
        /\ resp.recommendation = FallbackRecommendation(SentStatistics)

\* x <= 1.1 * y in exact arithmetic: 10 * x <= 11 * y
WithinTenPercent(x, y) ==
    LET e == IF x.e < y.e THEN x.e ELSE y.e
        tenX == BigShl(BigMul(x.m, <<10>>), x.e - e)
        elevenY == BigShl(BigMul(y.m, <<11>>), y.e - e)
    IN  ~BigLess(elevenY, tenX)

\* the reply of the model came and did not parse: the fallback path
OnFallbackPath ==
    /\ resp.kind = "recommendation"
    /\ resp.served.kind = "reply"
    /\ ~JsonParse(resp.served.content).ok

\* C14: on the fallback path shouldBuy is true exactly when current <= average (so for
\* current 80 and average 100), pricePoint is "Great deal" when current <= 1.1 * min,
\* otherwise "Good price" when current <= average, otherwise "Above average", and
\* confidence is 75
C14_FallbackRule ==
    OnFallbackPath =>
        LET stats == SentStatistics
            rec == resp.recommendation
            below == DoubleLeq(stats.currentPrice, stats.avgPrice)
        IN  /\ resp.status = 200
            /\ rec.shouldBuy = below
            /\ rec.pricePoint =
                  IF WithinTenPercent(stats.currentPrice, stats.minPrice) THEN "Great deal"
                  ELSE IF below THEN "Good price" ELSE "Above average"
            /\ rec.confidence = 75
            /\ (/\ stats.currentPrice = DoubleOfDecimal(8000)
                /\ stats.avgPrice = DoubleOfDecimal(10000)) => rec.shouldBuy

\* C14 witness: the fallback answered for current 80 and average 100
C14_Witness ==
    /\ OnFallbackPath
    /\ SentStatistics.currentPrice = DoubleOfDecimal(8000)
    /\ SentStatistics.avgPrice = DoubleOfDecimal(10000)
    /\ resp.recommendation.shouldBuy
    /\ resp.recommendation.confidence = 75

----------------------------------------------------------------------------
(* The daily run as a whole (specification SpecDailyRuns) *)

\* the products the run has attempted so far
Attempted == daily.successCount + daily.errorCount

\* C15: a daily run attempts the products of the list it loaded one after the other,
\* each once, whatever the earlier attempts gave and whatever rows the products table
\* gained meanwhile; it ends, and then successCount + errorCount is the length of
\* that list
C15_DailyRunAttemptsEveryProductOnce ==
    /\ [](daily.pc \in {"loop", "done"} =>
            /\ Attempted = daily.idx - 1
            /\ daily.idx <= Len(daily.list) + 1
            /\ daily.pc = "done" => Attempted = Len(daily.list))
    /\ [][daily.pc = "loop" /\ daily' # daily =>
            /\ daily'.list = daily.list
            /\ \/ /\ daily.idx <= Len(daily.list)
                  /\ daily'.pc = "loop"
                  /\ daily'.idx = daily.idx + 1
                  /\ fetched' # fetched \/ resp' # resp =>
                        fetched' = {daily.list[daily.idx].original_url}
               \/ /\ daily.idx = Len(daily.list) + 1
                  /\ daily'.pc = "done"
                  /\ daily'.idx = daily.idx]_vars
    /\ (daily.pc = "loop" ~> daily.pc = "done")

\* C15 witness: a run over a loaded list has ended with every product counted, one
\* attempt having failed, while the products table gained a row
C15_Witness ==
    /\ daily.pc = "done"
    /\ Len(daily.list) >= 1
    /\ Attempted = Len(daily.list)
    /\ Cardinality(products) > Len(daily.list)

----------------------------------------------------------------------------
(* The scrape handler and the search it triggers (specification SpecSubmit) *)

\* the step stored a product and a price record of it: the scrape and both inserts
\* succeeded
StoredProductAndRecord ==
    \E p \in products' \ products :
        \E r \in price_history' \ price_history : r.product_id = p.id

\* C16: a submission whose scrape and both inserts succeeded is answered with success
\* and the stored product, whether the triggered search throws, returns an error,
\* returns nothing or returns results
C16_SearchFailureSwallowed ==
    [][StoredProductAndRecord =>
          /\ resp'.kind = "success"
          /\ resp'.status = 200
          /\ resp'.search \in TriggeredSearches
          /\ resp'.product \in products' \ products]_vars

\* C16 witness: a submission was answered with success although the search threw
C16_Witness ==
    /\ resp.kind = "success"
    /\ resp.search = "throws"
    /\ resp.product \in products
    /\ \E r \in price_history : r.product_id = resp.product.id

----------------------------------------------------------------------------
(* The name the search handler resolves (specification SpecSearch) *)

\* the segments of the path of a URL: what follows scheme and host
PathSegments(url) ==
    LET parts == Split(url, "/") IN SubSeq(parts, 4, Len(parts))

\* the name the path of the URL gives: the segment before the first dp segment, its
\* dashes made spaces, or none
PathName(url) ==
    LET segments == PathSegments(url)
        before == {i \in 2..Len(segments) :
                      segments[i] = "dp" /\ \A j \in 1..(i - 1) : segments[j] # "dp"}
    IN  IF before = {} THEN ""
        ELSE ReplaceChars(segments[(CHOOSE i \in before : TRUE) - 1], {"-"}, " ")

\* the name a request without productName resolves to for the stored products
ResolvableName(productId) ==
    LET found == {p \in products : p.id = productId}
        stored == CHOOSE p \in found : TRUE
    IN  IF found = {} THEN ""
        ELSE IF stored.product_name # "" THEN stored.product_name
        ELSE PathName(stored.original_url)

\* C17: a request without productName searches with the stored product's name or, if
\* that is empty, with the name the path of the stored URL gives; when there is neither,
\* no search request is issued, no price record is written and the result list is empty
C17_NameResolution ==
    match.pc # "idle" /\ Trim(match.productName) = "" =>
        IF Trim(ResolvableName(match.productId)) # ""
        THEN match.searchName = ResolvableName(match.productId)
        ELSE /\ match.pc = "done"
             /\ match.step = 1
             /\ price_history = {}
             /\ match.response.results = <<>>

----------------------------------------------------------------------------
(* The tables under every writer (specification SpecTables) *)

\* the id up to which a scrape may start in this specification
MaxRowIds == MaxProducts + 2

\* the product cards of the Products page: onDelete.  The client deletes with the
\* session of `user`, so the policy lets it delete that user's rows only; no error
\* comes of a delete that matched no row
DeleteProduct(user, productId) ==
    /\ LET deleted == {p \in products : p.id = productId /\ p.user_id = user}
       IN  /\ products' = products \ deleted
           /\ price_history' = IF deleted = {} THEN price_history
                                ELSE DeleteCascade(price_history, productId)
    /\ UNCHANGED <<nextId, clock, fetched, resp, daily, ex, page, sim, match>>

\* what mapToKnownPlatforms may return: results of known platforms with a price above 0
MappedResults ==
    {<<>>,
     <<[platform_name |-> "Amazon", platform_url |-> "https://google.com/a", price |-> 49900]>>,
     <<[platform_name |-> "Amazon", platform_url |-> "https://google.com/a", price |-> 49900],
       [platform_name |-> "Flipkart", platform_url |-> "https://google.com/f", price |-> 45000]>>}

\* the rows of the mapped results the table accepts
RECURSIVE ShoppingRows(_, _, _, _)
ShoppingRows(platformResults, i, id, productId) ==
    IF i > Len(platformResults) THEN {}
    ELSE LET row == PriceRow(id, productId, platformResults[i].platform_name,
                             platformResults[i].platform_url, platformResults[i].price, clock)
         IN  IF PriceRowAccepted(products, row)
             THEN {row} \cup ShoppingRows(platformResults, i + 1, id + 1, productId)
             ELSE ShoppingRows(platformResults, i + 1, id, productId)

\* google-shopping-search: a request {productName, productId} with a name; the mapped
\* results are saved when a productId came with it
GoogleShoppingSearch(productId) ==
    /\ \E platformResults \in MappedResults :
          LET saved == IF productId # NullId /\ Len(platformResults) > 0
                       THEN ShoppingRows(platformResults, 1, nextId, productId)
                       ELSE {}
          IN  /\ price_history' = InsertRows(price_history, saved)
              /\ nextId' = nextId + Cardinality(saved)
              /\ clock' = IF saved = {} THEN clock ELSE clock + 1
    /\ UNCHANGED <<products, fetched, resp, daily, ex, page, sim, match>>

\* the listing the vendors' search pages show in this specification
OneListing == {l \in Listings : l.name = "teapot" /\ l.priceText = "₹3"}

\* every writer of the tables, one step at a time.  The inputs are kept small: the two
\* users submit the Amazon URL, whose page is served, the search a scrape triggers finds
\* nothing, and the vendors' search pages serve one listing at most and never fail
NextTables ==
    \/ /\ nextId <= MaxRowIds
       /\ \E user \in Users : HandleSubmit(user, AmazonUrl)
       /\ resp'.search = "nothing"
    \/ DailyStart
    \/ /\ nextId <= MaxRowIds
       /\ DailyStep
       /\ resp'.search = "nothing"
    \/ DailyStepInvokeFailed
    \/ DailyFinish
    \/ \E productId \in 1..2 : SearchRequest("teapot", productId)
    \/ /\ SearchPlatformFrom(OneListing)
       /\ match'.failed = 0
       /\ match'.served <= 1
    \/ SearchRespond
    \/ nextId <= MaxRowIds /\ \E productId \in 0..2 : GoogleShoppingSearch(productId)
    \/ \E user \in Users, productId \in 1..MaxRowIds : DeleteProduct(user, productId)

SpecTables == Init /\ [][NextTables]_vars

\* C18: every price record references a product the table holds, and the step that
\* deletes a product leaves no price record that referenced it
C18_RecordsReferenceProducts ==
    /\ [](\A r \in price_history : \E p \in products : p.id = r.product_id)
    /\ [][\A p \in products \ products' : HistoryOf(price_history', p.id) = {}]_vars

\* C18 witness: the first product was deleted after a daily run and a search for it
\* that found a listing, and the table still holds records, all of other products
C18_Witness ==
    /\ nextId > 1
    /\ \A p \in products : p.id # 1
    /\ daily.pc = "done" /\ daily.successCount > 0
    /\ match.pc = "done" /\ match.productId = 1 /\ Len(match.response.results) > 0
    /\ price_history # {}

\* C19: price records are append-only.  In every step each record the table holds stays
\* as it is, unless the step deleted its product; no record of the new table carries
\* the id of an old record with other fields; and a step of the scrape handler, of the
\* daily run or of the matcher removes no record at all
C19_RecordsAppendOnly ==
    [][/\ \A r \in price_history :
             \/ r \in price_history'
             \/ \E p \in products \ products' : p.id = r.product_id
       /\ \A n \in price_history' :
             (\E r \in price_history : r.id = n.id) => n \in price_history
       /\ (resp' # resp \/ daily' # daily \/ match' # match) =>
             price_history \subseteq price_history']_vars

\* C19 witness: the table holds records the scrape handler, the matcher and the
\* shopping search added, after a daily run
C19_Witness ==
    /\ daily.pc = "done" /\ daily.successCount > 0
    /\ match.pc = "done"
    /\ \E r \in price_history : r.platform_url = AmazonUrl
    /\ \E r \in price_history : r.platform_name = "BigBasket"
    /\ \E r \in price_history : r.platform_url = "https://google.com/a"

----------------------------------------------------------------------------
(* The owner of a stored product (specification SpecSubmit) *)

\* C20: every product row a request creates is owned by the user who made the request:
\* a request of user A never leaves a product row whose user_id is another user B
C20_ProductOwnedBySubmitter ==
    [][\A p \in products' \ products : p.user_id = resp'.caller]_vars

----------------------------------------------------------------------------
(* The pace of the matcher's requests (specification SpecSearch) *)

\* C22: in one invocation the delay elapses after every search request that another
\* request follows, whatever the request gave
C22_DelayBetweenSearchRequests ==
    [][/\ match.pc = "searching"
       /\ match'.step = match.step + 1
       /\ match'.step <= Len(SearchPairs(match.queries))
       => match'.slept = match.slept + 1]_vars

\* the requests of the invocation so far that went to the platform
RequestsTo(name) == {k \in DOMAIN match.requested : match.requested[k].platform.name = name}

\* C24: one invocation sends no vendor more than two search requests, however many
\* queries were built, and sends them one at a time in the order of the loops: every
\* step of the search is one request, the next pair's
C24_TwoRequestsPerVendor ==
    /\ [](\A i \in DOMAIN Platforms : Cardinality(RequestsTo(Platforms[i].name)) <= 2)
    /\ [](Len(match.requested) = match.step - 1)
    /\ [][match.pc = "searching" /\ match'.requested # match.requested =>
            /\ match'.pc = "searching"
            /\ match'.requested = Append(match.requested,
                                         SearchPairs(match.queries)[match.step])]_vars

\* C24 witness: the invocation is over, three queries were built for the name, and
\* every vendor was sent two requests
C24_Witness ==
    /\ match.pc = "done"
    /\ Len(SearchQueriesUnlimited(match.searchName, "")) = 3
    /\ \A i \in DOMAIN Platforms : Cardinality(RequestsTo(Platforms[i].name)) = 2

----------------------------------------------------------------------------
(* The pace of the daily run (specification SpecDailyRuns) *)

\* C23: in one daily run the delay elapses after the scrape of every product that
\* another product follows, whether the scrape succeeded or failed
C23_DelayBetweenProducts ==
    [][/\ daily.pc = "loop"
       /\ daily'.idx = daily.idx + 1
       /\ daily'.idx <= Len(daily.list)
       => daily'.slept = daily.slept + 1]_vars

----------------------------------------------------------------------------
(* The choice of the extractor (specification SpecDispatch) *)

\* URLs on a vendor's domain that name another vendor in the path or the query
FlipkartPathUrl == "https://www.flipkart.com/case-for-amazon.in-kindle/p/itm2"
MyntraQueryUrl == "https://www.myntra.com/shirts/1?ref=flipkart.com"
NykaaPathUrl == "https://www.nykaa.com/ajio.luxe-kit/p/3"

DispatchUrls == VendorUrls \cup {FlipkartPathUrl, MyntraQueryUrl, NykaaPathUrl}

InitDispatch ==
    /\ products = {}
    /\ price_history = {}
    /\ nextId = 1
    /\ clock = 1
    /\ fetched = {}
    /\ resp = NoResponse
    /\ daily = DailyIdle
    /\ page = PageIdle
    /\ sim = SimIdle
    /\ match = MatchIdle
    /\ \E url \in DispatchUrls : \E doc \in GeneratedPages(FlipkartUrl) : ex = ExLoaded(url, doc)

NextDispatch == Extract

SpecDispatch == InitDispatch /\ [][NextDispatch]_vars

\* the extractor of the vendor whose domain the URL is on
ScrapeByDomain(doc, url) ==
    IF VendorPlatform(url) = "Amazon" THEN ScrapeAmazon(doc, url)
    ELSE IF VendorPlatform(url) = "Flipkart" THEN ScrapeFlipkart(doc, url)
    ELSE IF VendorPlatform(url) = "Myntra" THEN ScrapeMyntra(doc, url)
    ELSE IF VendorPlatform(url) = "AJIO" THEN ScrapeAjio(doc, url)
    ELSE ScrapeNykaa(doc, url)

\* C25: a URL on the domain of a supported vendor is extracted with that vendor's
\* extractor and under that vendor's platform name, whatever its path and query hold
C25_ExtractorByDomain ==
    ex.pc = "done" /\ SupportedDomain(ex.url) =>
        /\ ex.result # Null
        /\ ex.result.platform_name = VendorPlatform(ex.url)
        /\ ex.result = ScrapeByDomain(ex.doc, ex.url)

----------------------------------------------------------------------------
(* The prices the handlers store (specification SpecPrices) *)

\* listings of the searched name, one of them at price zero
PricedListings == {[name |-> "teapot", priceText |-> t] : t \in {"₹0", "₹3"}}

\* the scrape handler, the matcher and the shopping search write prices for the tracked
\* product and the products submitted; the search a scrape triggers finds nothing and
\* no search of the matcher fails
NextPrices ==
    \/ /\ HandleSubmit("u1", FlipkartUrl)
       /\ resp'.search \in {"", "nothing"}
    \/ SearchRequest("teapot", TrackedProduct.id)
    \/ SearchPlatformFrom(PricedListings) /\ match'.failed = 0
    \/ SearchRespond
    \/ nextId <= MaxRowIds /\ GoogleShoppingSearch(TrackedProduct.id)

SpecPrices == InitMatch /\ [][NextPrices]_vars

\* C26: every price record the table holds has a price that is a number and not
\* negative, and the records a matcher invocation saves have prices above zero
C26_StoredPricesNotNegative ==
    /\ [](\A r \in price_history : r.price # NullPrice /\ r.price >= 0)
    /\ [][match.pc = "searching" /\ match'.pc = "done" =>
            \A r \in price_history' \ price_history : r.price > 0]_vars

\* C26 witness: the matcher was served a listing at price zero and one at 3 rupees and
\* saved a record, the shopping search saved one, and the scrape of a page whose price
\* is no number was refused its record
C26_Witness ==
    /\ match.pc = "done"
    /\ match.served > 1
    /\ \E k \in DOMAIN match.allResults : match.allResults[k].numericPrice = Number(3, 0)
    /\ \E r \in price_history : r.platform_url = "https://www.flipkart.com/teapot"
    /\ \E r \in price_history : r.platform_url = "https://google.com/a"
    /\ resp.kind = "error" /\ resp.error = "insert into price_history rejected"

----------------------------------------------------------------------------
(* The shape of a recommendation (specification SpecRec) *)

\* {shouldBuy: boolean, reason: text, pricePoint: label, confidence: 0-100}
RecommendationShape(r) ==
    /\ DOMAIN r = {"shouldBuy", "reason", "pricePoint", "confidence"}
    /\ r.shouldBuy \in BOOLEAN
    /\ r.confidence \in 0..100

\* C27: every successful response of the recommendation handler carries a
\* recommendation of the Recommendation shape, whatever the language model replied
C27_RecommendationShape ==
    resp.kind = "recommendation" /\ resp.status = 200 =>
        RecommendationShape(resp.recommendation)

----------------------------------------------------------------------------
(* The extractors on a page without name and price (specification SpecExtract) *)

\* the page holds no element a selector of the vendor matches and no price text
NoNameNoPrice(doc) ==
    \A i \in DOMAIN doc : doc[i].sels = {} /\ ~WellFormedPrice(doc[i].text)

\* the names the path of the URL gives: its segments, their dashes made spaces
UrlNames(url) ==
    {ReplaceChars(PathSegments(url)[i], {"-"}, " ") : i \in DOMAIN PathSegments(url)} \ {""}

\* C28: on a page of a supported vendor that yields neither a name nor a price the
\* extractor does not fail: it returns a record whose price is zero and whose name is
\* derived from a segment of the path of the URL
C28_BestEffortRecord ==
    ex.pc = "done" /\ NoNameNoPrice(ex.doc) =>
        /\ ex.result # Null
        /\ IsZero(ex.result.price)
        /\ ex.result.name \in UrlNames(ex.url)

----------------------------------------------------------------------------
(* The scrape handler's errors (specification SpecSubmit) *)

\* C29: a request the scrape handler answers with an error leaves the tables as they
\* were, and every product row has a price record
C29_ErrorPersistsNothing ==
    /\ [][resp' # resp /\ resp'.kind = "error" =>
            products' = products /\ price_history' = price_history]_vars
    /\ [](\A p \in products : HistoryOf(price_history, p.id) # {})

----------------------------------------------------------------------------
(* The labels of the fallback (specification SpecRec) *)

\* the statistics sent are those of a history that is not empty
StatisticsInOrder ==
    LET stats == SentStatistics
    IN  /\ DoubleLeq(stats.minPrice, stats.currentPrice)
        /\ DoubleLeq(stats.currentPrice, stats.maxPrice)
        /\ DoubleLeq(stats.minPrice, stats.avgPrice)
        /\ DoubleLeq(stats.avgPrice, stats.maxPrice)

\* C30: on the fallback path, for such statistics, the labels agree: "Great deal" and
\* "Good price" never come with shouldBuy = false, and "Above average" never comes
\* with shouldBuy = true
C30_FallbackLabelsAgree ==
    OnFallbackPath /\ resp.status = 200 /\ StatisticsInOrder =>
        LET rec == resp.recommendation
        IN  /\ rec.pricePoint \in {"Great deal", "Good price"} => rec.shouldBuy
            /\ rec.pricePoint = "Above average" => ~rec.shouldBuy

----------------------------------------------------------------------------
(* The product history page while it stays mounted (specification SpecPage) *)

\* a second product of the same user
OtherProduct ==
    [id |-> 2, user_id |-> "u1", product_name |-> "mug", original_url |-> FlipkartUrl,
     created_at |-> 1]

\* the record the second product may have
OtherRecord == PriceRow(MaxRecords + 2, OtherProduct.id, "Flipkart", FlipkartUrl, 10000, 1)

InitPage ==
    /\ products = {TrackedProduct, OtherProduct}
    /\ \E own \in DatedHistoryTables(TrackedProduct, RecPrices, MaxRecords),
          other \in {{}, {OtherRecord}} : price_history = own \cup other
    /\ nextId = MaxRecords + 3
    /\ clock = MaxRecords + 1
    /\ fetched = {}
    /\ resp = NoResponse
    /\ daily = DailyIdle
    /\ ex = ExIdle
    /\ page = PageIdle
    /\ sim = SimIdle
    /\ match = MatchIdle

\* the effect on [user, productId] runs again in the mounted page, whose state stays:
\* the route changed to another product or another user signed in
EffectRerun(user, productId) ==
    /\ page.pc = "shown"
    /\ user # page.user \/ productId # page.productId
    /\ LET found == {p \in VisibleProducts(user) : p.id = productId}
           rows == {r \in VisibleHistory(user) : r.product_id = productId}
       IN  \E historyData \in OrderedByScrapedAtDesc(rows) :
              page' = [page EXCEPT
                          !.user = user, !.productId = productId,
                          !.product = IF found = {} THEN Null ELSE CHOOSE p \in found : TRUE,
                          !.priceHistory = historyData,
                          !.priceStats = IF historyData # <<>> THEN PriceStats(historyData)
                                         ELSE page.priceStats,
                          !.loading = FALSE]
    /\ UNCHANGED <<products, price_history, nextId, clock, fetched, resp, daily, ex, sim, match>>

NextPage ==
    \/ RedirectToAuth
    \/ \E user \in Users, productId \in {TrackedProduct.id, OtherProduct.id} :
          FetchProductData(user, productId)
    \/ \E user \in Users, productId \in {TrackedProduct.id, OtherProduct.id} :
          EffectRerun(user, productId)
    \/ \E user \in Users, productId \in {TrackedProduct.id, OtherProduct.id} :
          DeleteProduct(user, productId)

SpecPage == InitPage /\ [][NextPage]_vars

\* C21: once a load has completed, the page holds price statistics only if the price
\* history it holds is not empty
C21_StatsOnlyWithHistory ==
    page.pc = "shown" /\ page.priceStats # Null => page.priceHistory # <<>>

====
